---------------------------- MODULE Spec2Model ----------------------------
(***************************************************************************)
(* A model of the light-field-network building blocks of                   *)
(* src/custom_layers.py and src/loss_functions.py.                         *)
(*                                                                         *)
(* Every component is a small sequential program; each gets its own        *)
(* specification over its own variables (the other components' variables  *)
(* stay idle):                                                             *)
(*   SpecBatchLinear   BatchLinear.forward                                 *)
(*   SpecSiren         Siren.__init__, Siren.forward, forward_with_film    *)
(*   SpecLoss          LFLoss.__call__ on two LFLoss objects               *)
(*   SpecPosEnc        PositionalEncoding.out_size / forward               *)
(*   SpecFused         FullyFusedFC.__init__                               *)
(*   SpecFCBlock       FCBlock.__init__ / FCBlock.forward                  *)
(*                                                                         *)
(* Python values: None is the empty tuple and a present value v is <<v>>   *)
(* (Some(v)); a dict is a function whose DOMAIN is its key set; a dotted   *)
(* parameter name 'net.0.linear.weight' is the tuple of its components.    *)
(***************************************************************************)
EXTENDS Integers, Sequences, FiniteSets, TLC

\* ------------------------------------------------------------------ bounds
MaxRank == 4        \* largest rank of a supplied weight tensor
MaxDim == 2         \* largest size of any tensor axis
MaxHidden == 2      \* largest hidden_layers of a Siren
MaxLen == 2         \* largest number of entries of an rgb or z tensor
MaxNDims == 3       \* largest n_dims of a PositionalEncoding
MaxInFeatures == 10 \* largest in_features of a FullyFusedFC

\* ---------------------------------------------------------- python values
None == <<>>
Some(v) == <<v>>
IsNone(o) == o = <<>>
Val(o) == o[1]

EmptyDict == <<>>
Keys(d) == DOMAIN d

Range(s) == {s[k] : k \in DOMAIN s}

RECURSIVE SumSeq(_)
SumSeq(s) == IF s = <<>> THEN 0 ELSE s[1] + SumSeq(Tail(s))

Max(a, b) == IF a >= b THEN a ELSE b
Min(a, b) == IF a <= b THEN a ELSE b

\* ----------------------------------------------------------------- tensors
\* A tensor is [shape |-> <<d1, ..., dr>>, at |-> [Idx(shape) -> Int]];
\* an index is a tuple of 1-based positions.
MaxOf(shape) == IF shape = <<>> THEN 1
                ELSE CHOOSE m \in Range(shape) : \A d \in Range(shape) : d <= m

Idx(shape) == {ix \in [1..Len(shape) -> 1..MaxOf(shape)] :
                 \A k \in 1..Len(shape) : ix[k] <= shape[k]}

Rank(t) == Len(t.shape)

\* The leading (batch) axes of a shape of rank >= 2, and its last two.
BatchOf(shape) == SubSeq(shape, 1, Len(shape) - 2)

\* A python axis number (negative counts from the end) as a 0-based axis.
NormAxis(d, r) == IF d < 0 THEN d + r ELSE d

\* torch.Tensor.permute(*dims): axis k of the result is axis dims[k] of t.
Permute(t, dims) ==
    LET r == Rank(t)
        p == [k \in 1..r |-> NormAxis(dims[k], r) + 1]
        shape == [k \in 1..r |-> t.shape[p[k]]]
        src(ix) == [j \in 1..r |-> ix[CHOOSE k \in 1..r : p[k] = j]]
    IN  [shape |-> shape, at |-> [ix \in Idx(shape) |-> t.at[src(ix)]]]

\* torch.Tensor.unsqueeze(-2): a new axis of size 1 before the last axis.
UnsqueezeM2(t) ==
    LET r == Rank(t)
        shape == SubSeq(t.shape, 1, r - 1) \o <<1>> \o <<t.shape[r]>>
        src(ix) == SubSeq(ix, 1, r - 1) \o <<ix[r + 1]>>
    IN  [shape |-> shape, at |-> [ix \in Idx(shape) |-> t.at[src(ix)]]]

\* Broadcasting: shapes are aligned at their last axis; an axis of size 1
\* (or a missing axis) is repeated.
PadTo(shape, r) == [k \in 1..r |-> IF k <= r - Len(shape) THEN 1
                                   ELSE shape[k - (r - Len(shape))]]

Broadcastable(s1, s2) ==
    LET r == Max(Len(s1), Len(s2))
    IN  \A k \in 1..r : \/ PadTo(s1, r)[k] = PadTo(s2, r)[k]
                        \/ PadTo(s1, r)[k] = 1
                        \/ PadTo(s2, r)[k] = 1

BroadcastShape(s1, s2) ==
    LET r == Max(Len(s1), Len(s2))
    IN  [k \in 1..r |-> Max(PadTo(s1, r)[k], PadTo(s2, r)[k])]

\* The index into an operand of shape `shape` for index ix of the result.
BroadcastIdx(shape, ix) ==
    LET off == Len(ix) - Len(shape)
    IN  [k \in 1..Len(shape) |-> IF shape[k] = 1 THEN 1 ELSE ix[k + off]]

RECURSIVE Dot(_, _, _)
Dot(f, g, k) == IF k = 0 THEN 0 ELSE f[k] * g[k] + Dot(f, g, k - 1)

\* torch.Tensor.matmul for operands of rank >= 2: a batched matrix product,
\* the batch axes broadcast.
Matmul(a, b) ==
    LET ra == Rank(a)
        rb == Rank(b)
        batch == BroadcastShape(BatchOf(a.shape), BatchOf(b.shape))
        nb == Len(batch)
        inner == a.shape[ra]
        shape == batch \o <<a.shape[ra - 1], b.shape[rb]>>
        aix(ix, k) == BroadcastIdx(BatchOf(a.shape), SubSeq(ix, 1, nb))
                        \o <<ix[nb + 1], k>>
        bix(ix, k) == BroadcastIdx(BatchOf(b.shape), SubSeq(ix, 1, nb))
                        \o <<k, ix[nb + 2]>>
    IN  [shape |-> shape,
         at |-> [ix \in Idx(shape) |->
                   Dot([k \in 1..inner |-> a.at[aix(ix, k)]],
                       [k \in 1..inner |-> b.at[bix(ix, k)]], inner)]]

\* In-place addition a += b, b broadcast to the shape of a.
AddInPlace(a, b) ==
    [shape |-> a.shape,
     at |-> [ix \in Idx(a.shape) |-> a.at[ix] + b.at[BroadcastIdx(b.shape, ix)]]]

\* Test data: a tensor of the given shape whose entries are pairwise distinct
\* (the entry encodes its own index), so that a wrong axis order shows.
RECURSIVE Encode(_, _)
Encode(ix, base) == IF ix = <<>> THEN 0
                    ELSE ix[Len(ix)] + base * Encode(SubSeq(ix, 1, Len(ix) - 1), base)

Tensor(shape, seed) ==
    [shape |-> shape, at |-> [ix \in Idx(shape) |-> seed + Encode(ix, MaxDim + 1)]]

ShapesOfRank(r) == [1..r -> 1..MaxDim]


\* --------------------------------------------------------------- variables
VARIABLES
    bl_self,        \* BatchLinear: the module's own named parameters
    bl_input,       \* BatchLinear.forward: argument input of the last call
    bl_params,      \* BatchLinear.forward: argument params of the last call
    bl_result,      \* BatchLinear.forward: outcome of the last call (None before)
    sn_hidden_layers, \* Siren.__init__: argument hidden_layers
    sn_net,         \* Siren.net: the list of layers
    sn_method,      \* Siren: the method running ("" when none)
    sn_params,      \* Siren.forward: argument params
    sn_film,        \* Siren.forward_with_film: argument film
    sn_i,           \* the loop index i of the running method
    sn_x,           \* the local x of the running method
    sn_pc,          \* "idle", "loop", "done" (returned) or "raised"
    sn_result,      \* the value returned (None before)
    sn_trace,       \* history: the layer evaluations of the running method
    lf_a,           \* an LFLoss object: its fields l2_weight, reg_weight
    lf_b,           \* a second LFLoss object
    lf_model_out,   \* the dict model_out passed to the calls
    lf_gt,          \* the dict gt passed to the calls
    lf_ret_a,       \* what lf_a(model_out, gt, ...) returned (None before)
    lf_ret_b,       \* what lf_b(model_out, gt, ...) returned (None before)
    pe_self,        \* a PositionalEncoding: its fields in_features, n_dims
    pe_x,           \* PositionalEncoding.forward: argument x
    pe_y,           \* PositionalEncoding.forward: the list y
    pe_i,           \* PositionalEncoding.forward: the loop index i
    pe_pc,          \* "idle", "loop", "done" (returned) or "raised"
    pe_result,      \* PositionalEncoding.forward: the tensor returned
    ff_args,        \* FullyFusedFC.__init__: its arguments
    ff_dims_remaining,  \* FullyFusedFC.__init__: the local dims_remaining
    ff_encoding_config, \* FullyFusedFC.__init__: the local encoding_config
    ff_iterations,  \* history: iterations of the chunking loop so far
    ff_pc,          \* "start", "repeat", "config", "done"
    ff_net,         \* FullyFusedFC.net: the arguments the network was built from
    fc_args,        \* FCBlock.__init__: its arguments
    fc_net,         \* FCBlock.net: the list of layers
    fc_i,           \* FCBlock.__init__: the loop index i
    fc_pc,          \* "start", "hidden", "last", "built", "called"
    fc_params,      \* FCBlock.forward: argument params
    fc_net_call     \* FCBlock.forward: the params handed to self.net

blVars == <<bl_self, bl_input, bl_params, bl_result>>
snVars == <<sn_hidden_layers, sn_net, sn_method, sn_params, sn_film, sn_i, sn_x,
            sn_pc, sn_result, sn_trace>>

lfVars == <<lf_a, lf_b, lf_model_out, lf_gt, lf_ret_a, lf_ret_b>>

peVars == <<pe_self, pe_x, pe_y, pe_i, pe_pc, pe_result>>
ffVars == <<ff_args, ff_dims_remaining, ff_encoding_config, ff_iterations, ff_pc, ff_net>>

fcVars == <<fc_args, fc_net, fc_i, fc_pc, fc_params, fc_net_call>>

vars == <<blVars, snVars, lfVars, peVars, ffVars, fcVars>>

\* What the actions of one component leave alone: the other components.
blOthers == <<snVars, lfVars, peVars, ffVars, fcVars>>
snOthers == <<blVars, lfVars, peVars, ffVars, fcVars>>
lfOthers == <<blVars, snVars, peVars, ffVars, fcVars>>
peOthers == <<blVars, snVars, lfVars, ffVars, fcVars>>
ffOthers == <<blVars, snVars, lfVars, peVars, fcVars>>
fcOthers == <<blVars, snVars, lfVars, peVars, ffVars>>

\* ------------------------------------------------------------- outcomes
\* The outcome of a call: a returned value or a raised exception.
Return(v) == [exc |-> "", value |-> Some(v)]
Raise(e) == [exc |-> e, value |-> None]
Returned(r) == r.exc = ""

\* ------------------------------------------------------------ BatchLinear
\* nn.Linear(in_features, out_features, bias): weight of shape (out, in) and,
\* with bias=True, bias of shape (out); named_parameters() lists them.
NewBatchLinear(in_features, out_features, bias) ==
    IF bias
    THEN ("weight" :> Tensor(<<out_features, in_features>>, 100)
          @@ "bias" :> Tensor(<<out_features>>, 100))
    ELSE ("weight" :> Tensor(<<out_features, in_features>>, 100))

\* A faulty variant of PermuteDims: every axis reversed (weight.T).
PermuteDimsReversed(weight) ==
    [k \in 1..Rank(weight) |-> Rank(weight) - k]

\* The argument list of weight.permute at line 53:
\* *[i for i in range(len(weight.shape) - 2)], -1, -2
PermuteDims(weight) ==
    [k \in 1..Rank(weight) |->
        IF k <= Rank(weight) - 2 THEN k - 1
        ELSE IF k = Rank(weight) - 1 THEN -1 ELSE -2]

\* What the tensor framework accepts (it raises RuntimeError otherwise).
MatmulOk(a, b) ==
    /\ a.shape[Rank(a)] = b.shape[Rank(b) - 1]
    /\ Broadcastable(BatchOf(a.shape), BatchOf(b.shape))
AddInPlaceOk(a, b) ==
    /\ Broadcastable(a.shape, b.shape)
    /\ BroadcastShape(a.shape, b.shape) = a.shape

\* The parameter set forward works with (lines 47-48).
BLParamsUsed(self, params) == IF IsNone(params) THEN self ELSE Val(params)

\* Line 54: output += bias.unsqueeze(-2); bias is None when the parameter set
\* has no 'bias' entry, and None has no unsqueeze.
BLAddBias(output, bias) ==
    IF IsNone(bias) THEN Raise("AttributeError")
    ELSE IF ~AddInPlaceOk(output, UnsqueezeM2(Val(bias))) THEN Raise("RuntimeError")
    ELSE Return(AddInPlace(output, UnsqueezeM2(Val(bias))))

\* BatchLinear.forward(input, params)
BatchLinearForward(self, input, params) ==
    LET p == BLParamsUsed(self, params)
        bias == IF "bias" \in Keys(p) THEN Some(p["bias"]) ELSE None
    IN  IF "weight" \notin Keys(p) THEN Raise("KeyError")
        ELSE LET weight == p["weight"]
                 wT == Permute(weight, PermuteDims(weight))
             IN  IF ~MatmulOk(input, wT) THEN Raise("RuntimeError")
                 ELSE BLAddBias(Matmul(input, wT), bias)

\* The params mappings a caller (a hypernetwork) supplies for a module: a
\* weight of rank 2..MaxRank of shape batch + (out, in), with or without a
\* bias of shape batch + (out), or a mapping without a weight.
WeightShapesFor(self) ==
    {b \o self["weight"].shape : b \in UNION {ShapesOfRank(r) : r \in 0..(MaxRank - 2)}}

SuppliedParams(self) ==
    {("weight" :> Tensor(ws, 0) @@ "bias" :> Tensor(BatchOf(ws) \o <<ws[Len(ws) - 1]>>, 0)) :
        ws \in WeightShapesFor(self)}
    \cup {("weight" :> Tensor(ws, 0)) : ws \in WeightShapesFor(self)}
    \cup {("bias" :> Tensor(<<self["weight"].shape[1]>>, 0))}

\* The inputs whose shape suits a weight of shape ws: batch + (n, in), the
\* batch that of the weight, or none, or (for an unbatched weight) one axis.
InputsFor(ws) ==
    LET in_features == ws[Len(ws)]
        batches == {BatchOf(ws), <<>>}
                   \cup (IF Len(ws) = 2 THEN {<<b>> : b \in 1..MaxDim} ELSE {})
    IN  {Tensor(b \o <<n, in_features>>, 50) : b \in batches, n \in 1..MaxDim}

BLInit ==
    /\ \E i \in 1..MaxDim, o \in 1..MaxDim, b \in BOOLEAN :
          bl_self = NewBatchLinear(i, o, b)
    /\ bl_input = None
    /\ bl_params = None
    /\ bl_result = None

BLIdle ==
    /\ bl_self = EmptyDict
    /\ bl_input = None
    /\ bl_params = None
    /\ bl_result = None

\* layer(input): forward with the module's own parameters.
BLCallOwn ==
    /\ IsNone(bl_result)
    /\ \E x \in InputsFor(bl_self["weight"].shape) :
        /\ bl_input' = Some(x)
        /\ bl_params' = None
        /\ bl_result' = Some(BatchLinearForward(bl_self, x, None))
        /\ UNCHANGED <<bl_self, blOthers>>

\* layer(input, params=p): forward with a supplied mapping.
BLCallWithParams ==
    /\ IsNone(bl_result)
    /\ \E p \in SuppliedParams(bl_self) :
      \E x \in InputsFor(IF "weight" \in Keys(p) THEN p["weight"].shape
                         ELSE bl_self["weight"].shape) :
        /\ bl_input' = Some(x)
        /\ bl_params' = Some(p)
        /\ bl_result' = Some(BatchLinearForward(bl_self, x, Some(p)))
        /\ UNCHANGED <<bl_self, blOthers>>

BLNext == BLCallOwn \/ BLCallWithParams



\* ----------------------------------------------------- BatchLinear: claims
\* input x W' (+ bias), written out entry by entry: entry (b.., n, o) is
\* sum_k input[b.., n, k] * weight[b.., o, k] (+ bias[b.., o]), every batch
\* axis of the weight read at its own position.
RefEntry(x, W, ix) ==
    LET nb == Len(ix) - 2
        xb == BroadcastIdx(BatchOf(x.shape), SubSeq(ix, 1, nb))
        wb == BroadcastIdx(BatchOf(W.shape), SubSeq(ix, 1, nb))
        inner == W.shape[Len(W.shape)]
    IN  SumSeq([k \in 1..inner |->
                  x.at[xb \o <<ix[nb + 1], k>>] * W.at[wb \o <<ix[nb + 2], k>>]])

RefShape(x, W) ==
    BroadcastShape(BatchOf(x.shape), BatchOf(W.shape))
        \o <<x.shape[Len(x.shape) - 1], W.shape[Len(W.shape) - 1]>>

RefLinear(x, W, b) ==
    [shape |-> RefShape(x, W),
     at |-> [ix \in Idx(RefShape(x, W)) |->
               RefEntry(x, W, ix)
               + b.at[BroadcastIdx(SubSeq(b.shape, 1, Len(b.shape) - 1),
                                   SubSeq(ix, 1, Len(ix) - 2))
                      \o <<ix[Len(ix)]>>]]]

RefLinearNoBias(x, W) ==
    [shape |-> RefShape(x, W),
     at |-> [ix \in Idx(RefShape(x, W)) |-> RefEntry(x, W, ix)]]

HasBoth(p) == {"weight", "bias"} \subseteq Keys(p)

\* C1: BatchLinear.forward works from the module's own parameters only when
\* params is None; with a params mapping that holds 'weight' and 'bias' it
\* returns input x W' + bias computed from the supplied tensors alone, W' the
\* supplied weight with its last two axes swapped and its batch axes in
\* place, for every weight rank from 2 up.
C1_ForwardUsesGivenParams ==
    ~IsNone(bl_result) =>
        /\ (IsNone(bl_params) /\ HasBoth(bl_self)) =>
              Val(bl_result) = Return(RefLinear(Val(bl_input), bl_self["weight"],
                                                bl_self["bias"]))
        /\ (~IsNone(bl_params) /\ HasBoth(Val(bl_params))) =>
              Val(bl_result) = Return(RefLinear(Val(bl_input), Val(bl_params)["weight"],
                                                Val(bl_params)["bias"]))

\* A call with a supplied weight of the largest rank, all axes of size > 1,
\* has returned.
C1_Witness ==
    /\ ~IsNone(bl_result)
    /\ ~IsNone(bl_params)
    /\ HasBoth(Val(bl_params))
    /\ Len(Val(bl_params)["weight"].shape) = MaxRank
    /\ \A d \in Range(Val(bl_params)["weight"].shape) : d > 1
    /\ Returned(Val(bl_result))

\* C8: with no 'bias' entry in the parameter set it works with (the module
\* built with bias=False, or a supplied mapping without 'bias'), forward
\* returns input x W' and raises nothing.
C8_BiasIsOptional ==
    ~IsNone(bl_result) =>
        LET p == IF IsNone(bl_params) THEN bl_self ELSE Val(bl_params)
        IN  ("weight" \in Keys(p) /\ "bias" \notin Keys(p)) =>
                Val(bl_result) = Return(RefLinearNoBias(Val(bl_input), p["weight"]))


\* ------------------------------------------------------------------ Siren
\* Tensors are symbolic here: a parameter tensor is named by where it comes
\* from ("own": the module's, "given": the params argument, "film") and by
\* its dotted name; an activation is the chain of layer applications that
\* produced it from coords (the empty chain).
Id(src, name) == [src |-> src, name |-> name]
NoId == Id("none", <<"none">>)
coords == <<>>

\* MetaModule.get_subdict(params, key) of the torchmeta library the modules
\* derive from: None for params None; otherwise the entries whose name is
\* key + '.' + rest, renamed to rest; None when there are none.
GetSubdict(params, key) ==
    IF IsNone(params) THEN None
    ELSE LET p == Val(params)
             under == {k \in Keys(p) : /\ Len(k) > Len(key)
                                       /\ SubSeq(k, 1, Len(key)) = key}
             names == {SubSeq(k, Len(key) + 1, Len(k)) : k \in under}
         IN  IF names = {} THEN None
             ELSE Some([n \in names |-> p[key \o n]])

\* BatchLinear.forward on symbolic tensors: which parameter tensors the
\* product is computed from, or the exception raised.
SymBatchLinear(self, params) ==
    LET p == BLParamsUsed(self, params)
    IN  IF <<"weight">> \notin Keys(p) THEN Raise("KeyError")
        ELSE IF <<"bias">> \notin Keys(p) THEN Raise("AttributeError")
        ELSE Return([weight |-> p[<<"weight">>], bias |-> p[<<"bias">>]])

\* The named parameters of a BatchLinear that sits at `path` in its model.
SymLinearParams(path, bias) ==
    IF bias
    THEN (<<"weight">> :> Id("own", path \o <<"weight">>)
          @@ <<"bias">> :> Id("own", path \o <<"bias">>))
    ELSE (<<"weight">> :> Id("own", path \o <<"weight">>))

\* SineLayer(in_features, out_features, bias, is_first, omega_0)
NewSineLayer(path, bias, is_first, omega_0) ==
    [kind |-> "SineLayer", is_first |-> is_first, omega_0 |-> omega_0,
     linear |-> SymLinearParams(path \o <<"linear">>, bias)]

\* A bare BatchLinear(hidden_features, out_features) as a layer of net.
NewFinalLinear(path) ==
    [kind |-> "BatchLinear", is_first |-> FALSE, omega_0 |-> "",
     linear |-> SymLinearParams(path, TRUE)]

Applied(x, fn, omega_0, lin, gamma, beta) ==
    Append(x, [fn |-> fn, omega_0 |-> omega_0, weight |-> lin.weight,
               bias |-> lin.bias, gamma |-> gamma, beta |-> beta])

\* SineLayer.forward(input, params)
SineLayerForward(layer, input, params) ==
    LET intermed == SymBatchLinear(layer.linear, GetSubdict(params, <<"linear">>))
    IN  IF ~Returned(intermed) THEN intermed
        ELSE Return(Applied(input, "sin", layer.omega_0, Val(intermed.value), NoId, NoId))

\* SineLayer.forward_with_film(input, gamma, beta)
SineLayerForwardWithFilm(layer, input, gamma, beta) ==
    LET intermed == SymBatchLinear(layer.linear, None)
    IN  IF ~Returned(intermed) THEN intermed
        ELSE Return(Applied(input, "sin", layer.omega_0, Val(intermed.value), gamma, beta))

\* layer(x, params=...) for a layer of Siren.net: a SineLayer or the bare
\* final BatchLinear.
LayerForward(layer, input, params) ==
    IF layer.kind = "SineLayer" THEN SineLayerForward(layer, input, params)
    ELSE LET out == SymBatchLinear(layer.linear, params)
         IN  IF ~Returned(out) THEN out
             ELSE Return(Applied(input, "linear", "", Val(out.value), NoId, NoId))

\* A faulty variant of LayerKey: off by one.
LayerKeyNext(i) == <<"net", i + 1>>

\* f'net.{i}' at line 170
LayerKey(i) == <<"net", i>>

\* The name nn.ModuleList gives its i-th child inside the attribute net.
ChildName(i) == <<"net", i>>

\* Siren.__init__: the list self.net
RECURSIVE HiddenLayers(_, _)
HiddenLayers(first, n) ==
    IF n = 0 THEN <<>>
    ELSE <<NewSineLayer(ChildName(first), TRUE, FALSE, "hidden_omega_0")>>
         \o HiddenLayers(first + 1, n - 1)

SirenNet(hidden_layers, outermost_linear, special_first) ==
    <<NewSineLayer(ChildName(0), TRUE, special_first, "first_omega_0")>>
    \o HiddenLayers(1, hidden_layers)
    \o <<IF outermost_linear THEN NewFinalLinear(ChildName(hidden_layers + 1))
         ELSE NewSineLayer(ChildName(hidden_layers + 1), TRUE, FALSE, "hidden_omega_0")>>

\* The dotted names of Siren.named_parameters().
ParamNames(net) ==
    UNION {{ChildName(i - 1) \o (IF net[i].kind = "SineLayer" THEN <<"linear">> ELSE <<>>) \o n :
              n \in Keys(net[i].linear)} : i \in 1..Len(net)}

\* The params arguments: None, or a mapping over some of the model's names.
ParamsArgs(net) ==
    {None} \cup {Some([k \in K |-> Id("given", k)]) : K \in SUBSET ParamNames(net)}

\* The film arguments: one {'gamma', 'beta'} entry per position, of any length
\* up to one more than the number of layers.
FilmOfLen(n) ==
    [j \in 1..n |-> [gamma |-> Id("film", <<"film", j - 1, "gamma">>),
                     beta |-> Id("film", <<"film", j - 1, "beta">>)]]
FilmArgs(net) == {FilmOfLen(n) : n \in 0..(Len(net) + 1)}

Event(i, input, params, call, gamma, beta, out) ==
    [layer |-> i, input |-> input, params |-> params, call |-> call,
     gamma |-> gamma, beta |-> beta, output |-> out.value]

SNInit ==
    /\ sn_hidden_layers \in 0..MaxHidden
    /\ \E outermost_linear \in BOOLEAN, special_first \in BOOLEAN :
          sn_net = SirenNet(sn_hidden_layers, outermost_linear, special_first)
    /\ sn_method = ""
    /\ sn_params = None
    /\ sn_film = <<>>
    /\ sn_i = 0
    /\ sn_x = coords
    /\ sn_pc = "idle"
    /\ sn_result = None
    /\ sn_trace = <<>>

SNIdle ==
    /\ sn_hidden_layers = 0
    /\ sn_net = <<>>
    /\ sn_method = ""
    /\ sn_params = None
    /\ sn_film = <<>>
    /\ sn_i = 0
    /\ sn_x = coords
    /\ sn_pc = "idle"
    /\ sn_result = None
    /\ sn_trace = <<>>

\* Siren.forward(coords, params): entry (line 167)
SirenForwardCall ==
    /\ sn_pc = "idle"
    /\ \E params \in ParamsArgs(sn_net) : sn_params' = params
    /\ sn_method' = "forward"
    /\ sn_x' = coords
    /\ sn_i' = 0
    /\ sn_pc' = "loop"
    /\ sn_trace' = <<>>
    /\ UNCHANGED snOthers
    /\ UNCHANGED <<sn_hidden_layers, sn_net, sn_film, sn_result>>

\* One iteration of the loop at lines 169-170.
SirenForwardStep ==
    /\ sn_pc = "loop"
    /\ sn_method = "forward"
    /\ sn_i < Len(sn_net)
    /\ LET sub == GetSubdict(sn_params, LayerKey(sn_i))
           out == LayerForward(sn_net[sn_i + 1], sn_x, sub)
       IN  /\ sn_trace' = Append(sn_trace,
                                 Event(sn_i, sn_x, sub, "forward", NoId, NoId, out))
           /\ IF Returned(out)
              THEN /\ sn_x' = Val(out.value)
                   /\ sn_i' = sn_i + 1
                   /\ sn_pc' = "loop"
              ELSE /\ sn_pc' = "raised"
                   /\ UNCHANGED <<sn_x, sn_i>>
    /\ UNCHANGED snOthers
    /\ UNCHANGED <<sn_hidden_layers, sn_net, sn_method, sn_params, sn_film, sn_result>>

\* return x (line 172)
SirenForwardReturn ==
    /\ sn_pc = "loop"
    /\ sn_method = "forward"
    /\ sn_i >= Len(sn_net)
    /\ sn_result' = Some(sn_x)
    /\ sn_pc' = "done"
    /\ UNCHANGED snOthers
    /\ UNCHANGED <<sn_hidden_layers, sn_net, sn_method, sn_params, sn_film, sn_i,
                   sn_x, sn_trace>>

\* Siren.forward_with_film(coords, film): entry (line 175)
SirenFilmCall ==
    /\ sn_pc = "idle"
    /\ \E film \in FilmArgs(sn_net) : sn_film' = film
    /\ sn_method' = "forward_with_film"
    /\ sn_x' = coords
    /\ sn_i' = 0
    /\ sn_pc' = "loop"
    /\ sn_trace' = <<>>
    /\ UNCHANGED snOthers
    /\ UNCHANGED <<sn_hidden_layers, sn_net, sn_params, sn_result>>

\* The number of pairs zip(self.net, film) yields (line 177).
ZipLen(net, film) == Min(Len(net), Len(film))

\* One iteration of the loop at lines 177-181.
SirenFilmStep ==
    /\ sn_pc = "loop"
    /\ sn_method = "forward_with_film"
    /\ sn_i < ZipLen(sn_net, sn_film)
    /\ LET layer == sn_net[sn_i + 1]
           layer_film == sn_film[sn_i + 1]
           modulated == sn_i < Len(sn_net) - 1
           out == IF modulated
                  THEN SineLayerForwardWithFilm(layer, sn_x, layer_film.gamma,
                                                layer_film.beta)
                  ELSE LayerForward(layer, sn_x, None)
       IN  /\ sn_trace' = Append(sn_trace,
                IF modulated
                THEN Event(sn_i, sn_x, None, "forward_with_film",
                           layer_film.gamma, layer_film.beta, out)
                ELSE Event(sn_i, sn_x, None, "forward", NoId, NoId, out))
           /\ IF Returned(out)
              THEN /\ sn_x' = Val(out.value)
                   /\ sn_i' = sn_i + 1
                   /\ sn_pc' = "loop"
              ELSE /\ sn_pc' = "raised"
                   /\ UNCHANGED <<sn_x, sn_i>>
    /\ UNCHANGED snOthers
    /\ UNCHANGED <<sn_hidden_layers, sn_net, sn_method, sn_params, sn_film, sn_result>>

\* return x (line 183)
SirenFilmReturn ==
    /\ sn_pc = "loop"
    /\ sn_method = "forward_with_film"
    /\ sn_i >= ZipLen(sn_net, sn_film)
    /\ sn_result' = Some(sn_x)
    /\ sn_pc' = "done"
    /\ UNCHANGED snOthers
    /\ UNCHANGED <<sn_hidden_layers, sn_net, sn_method, sn_params, sn_film, sn_i,
                   sn_x, sn_trace>>

SNNext == \/ SirenForwardCall \/ SirenForwardStep \/ SirenForwardReturn
          \/ SirenFilmCall \/ SirenFilmStep \/ SirenFilmReturn

\* ------------------------------------------------------------ Siren: claims
\* The entries of params a layer was handed, under their names in params.
Received(sub, i) ==
    IF IsNone(sub) THEN {}
    ELSE {<<(<<"net", i>> \o n), Val(sub)[n]>> : n \in Keys(Val(sub))}

\* The entries of params whose name starts with 'net.i.'.
Under(params, i) ==
    IF IsNone(params) THEN {}
    ELSE {<<k, Val(params)[k]>> :
            k \in {n \in Keys(Val(params)) : n[1] = "net" /\ n[2] = i}}

Last(seq) == seq[Len(seq)]

\* C2: Siren.forward evaluates the layers one after the other from index 0,
\* each layer once, layer i on the output of layer i-1 (layer 0 on coords)
\* and with exactly the entries of params under 'net.i', its product using
\* only parameters of layer i; a pass that returns has evaluated exactly
\* hidden_layers + 2 layers and returns the output of layer hidden_layers+1.
C2_StaticFeedForward ==
    sn_method = "forward" =>
        /\ Len(sn_trace) <= sn_hidden_layers + 2
        /\ \A k \in 1..Len(sn_trace) :
              /\ sn_trace[k].layer = k - 1
              /\ sn_trace[k].input = (IF k = 1 THEN coords
                                      ELSE Val(sn_trace[k - 1].output))
              /\ Received(sn_trace[k].params, k - 1) = Under(sn_params, k - 1)
              /\ ~IsNone(sn_trace[k].output) =>
                    LET app == Last(Val(sn_trace[k].output))
                    IN  /\ SubSeq(app.weight.name, 1, 2) = <<"net", k - 1>>
                        /\ SubSeq(app.bias.name, 1, 2) = <<"net", k - 1>>
        /\ sn_pc = "loop" => Len(sn_trace) = sn_i
        /\ sn_pc = "done" =>
              /\ Len(sn_trace) = sn_hidden_layers + 2
              /\ Len(sn_net) = sn_hidden_layers + 2
              /\ sn_result = Last(sn_trace).output

\* A pass over the deepest network, every parameter supplied, has returned.
C2_Witness ==
    /\ sn_method = "forward"
    /\ sn_pc = "done"
    /\ sn_hidden_layers = MaxHidden
    /\ ~IsNone(sn_params)
    /\ Keys(Val(sn_params)) = ParamNames(sn_net)

\* C3: forward_with_film returns the output of the last layer, every earlier
\* layer evaluated once, in order, modulated with its film entry, and the last
\* layer evaluated once without modulation, whatever the length of film.
C3_FilmNeverSkipsALayer ==
    (sn_method = "forward_with_film" /\ sn_pc = "done") =>
        /\ Len(sn_trace) = Len(sn_net)
        /\ \A k \in 1..Len(sn_trace) :
              /\ sn_trace[k].layer = k - 1
              /\ k < Len(sn_net) =>
                    /\ sn_trace[k].call = "forward_with_film"
                    /\ sn_trace[k].gamma = sn_film[k].gamma
                    /\ sn_trace[k].beta = sn_film[k].beta
              /\ k = Len(sn_net) =>
                    /\ sn_trace[k].call = "forward"
                    /\ sn_trace[k].gamma = NoId
        /\ sn_result = Last(sn_trace).output

\* ----------------------------------------------------------------- LFLoss
\* Losses are exact fractions <<numerator, denominator>> in lowest terms,
\* the denominator positive; rgb and z tensors are flat tuples of integers.
RECURSIVE Gcd(_, _)
Gcd(a, b) == IF b = 0 THEN a ELSE Gcd(b, a % b)
Abs(a) == IF a < 0 THEN -a ELSE a

Frac(n, d) == LET g == Gcd(Abs(n), d) IN <<n \div g, d \div g>>
Times(q, k) == Frac(q[1] * k, q[2])

\* Tensor.mean()
Mean(t) == Frac(SumSeq(t), Len(t))

\* nn.MSELoss()(a, b): the mean of the squared differences
MSELoss(a, b) == Mean([k \in 1..Len(a) |-> (a[k] - b[k]) * (a[k] - b[k])])

\* image_loss_l2(model_out, gt)
image_loss_l2(model_out, gt) == Times(MSELoss(gt["rgb"], model_out["rgb"]), 200)

\* LFLoss(l2_weight, reg_weight)
NewLFLoss(l2_weight, reg_weight) == [l2_weight |-> l2_weight, reg_weight |-> reg_weight]

\* A faulty variant of LFImgLoss: the image loss scaled by l2_weight.
LFImgLossWeighted(self, model_out, gt) ==
    Times(image_loss_l2(model_out, gt), self.l2_weight)

\* Line 19: loss_dict['img_loss']
LFImgLoss(self, model_out, gt) == image_loss_l2(model_out, gt)

\* A faulty variant of LFReg: z not squared.
LFRegNotSquared(self, z) == Times(Mean(z), self.reg_weight)

\* Line 21: (model_out['z']**2).mean() * self.reg_weight
LFReg(self, z) == Times(Mean([k \in 1..Len(z) |-> z[k] * z[k]]), self.reg_weight)

\* LFLoss.__call__(model_out, gt, model, val): the pair returned, and the two
\* argument dicts as the call leaves them.
LFLossCall(self, model_out, gt, model, val) ==
    LET img == ("img_loss" :> LFImgLoss(self, model_out, gt))
        loss_dict == IF "z" \in Keys(model_out)
                     THEN img @@ ("reg" :> LFReg(self, model_out["z"]))
                     ELSE img
    IN  [ret |-> <<loss_dict, EmptyDict>>, model_out |-> model_out, gt |-> gt]

Pixels == {0, 1}
Latents == {-1, 0, 1}
L2Weights == {1, 2}
RegWeights == {1, 100}
ModelArgs == {"None", "model"}

LFInit ==
    /\ \E n \in 1..MaxLen :
          /\ lf_gt \in {("rgb" :> t) : t \in [1..n -> Pixels]}
          /\ lf_model_out \in
                {("rgb" :> t) : t \in [1..n -> Pixels]}
                \cup {("rgb" :> t @@ "z" :> z) :
                         t \in [1..n -> Pixels],
                         z \in UNION {[1..m -> Latents] : m \in 1..MaxLen}}
    /\ \E l2a \in L2Weights, l2b \in L2Weights, reg \in RegWeights :
          /\ lf_a = NewLFLoss(l2a, reg)
          /\ lf_b = NewLFLoss(l2b, reg)
    /\ lf_ret_a = None
    /\ lf_ret_b = None

LFIdle ==
    /\ lf_a = NewLFLoss(1, 100)
    /\ lf_b = NewLFLoss(1, 100)
    /\ lf_model_out = EmptyDict
    /\ lf_gt = EmptyDict
    /\ lf_ret_a = None
    /\ lf_ret_b = None

\* lf_a(model_out, gt, model, val)
LFCallA ==
    /\ IsNone(lf_ret_a)
    /\ \E model \in ModelArgs, val \in BOOLEAN :
          LET r == LFLossCall(lf_a, lf_model_out, lf_gt, model, val)
          IN  /\ lf_ret_a' = Some(r.ret)
              /\ lf_model_out' = r.model_out
              /\ lf_gt' = r.gt
    /\ UNCHANGED <<lf_a, lf_b, lf_ret_b, lfOthers>>

\* lf_b(model_out, gt, model, val)
LFCallB ==
    /\ IsNone(lf_ret_b)
    /\ \E model \in ModelArgs, val \in BOOLEAN :
          LET r == LFLossCall(lf_b, lf_model_out, lf_gt, model, val)
          IN  /\ lf_ret_b' = Some(r.ret)
              /\ lf_model_out' = r.model_out
              /\ lf_gt' = r.gt
    /\ UNCHANGED <<lf_a, lf_b, lf_ret_a, lfOthers>>

LFNext == LFCallA \/ LFCallB

\* --------------------------------------------------------- LFLoss: claims
\* q is the fraction num / den.
IsFrac(q, num, den) == q[2] > 0 /\ q[1] * den = num * q[2]

SumSq(a, b) == SumSeq([k \in 1..Len(a) |-> (a[k] - b[k]) * (a[k] - b[k])])

RetAsClaimed(ret, self, model_out, gt) ==
    /\ Len(ret) = 2
    /\ ret[2] = EmptyDict
    /\ Keys(ret[1]) = (IF "z" \in Keys(model_out) THEN {"img_loss", "reg"}
                       ELSE {"img_loss"})
    /\ "z" \in Keys(model_out) =>
          IsFrac(ret[1]["reg"],
                 SumSeq([k \in 1..Len(model_out["z"]) |-> model_out["z"][k] * model_out["z"][k]])
                    * self.reg_weight,
                 Len(model_out["z"]))

\* C4: the call returns (loss_dict, {}) with the second element empty and
\* loss_dict holding exactly 'img_loss', plus 'reg' exactly when model_out
\* has 'z'; 'reg' is mean(z^2) * reg_weight; and the call changes neither
\* model_out nor gt.
C4_LossDictShape ==
    /\ [](~IsNone(lf_ret_a) => RetAsClaimed(Val(lf_ret_a), lf_a, lf_model_out, lf_gt))
    /\ [](~IsNone(lf_ret_b) => RetAsClaimed(Val(lf_ret_b), lf_b, lf_model_out, lf_gt))
    /\ [][lf_model_out' = lf_model_out /\ lf_gt' = lf_gt]_vars

\* A call on a model_out with a latent of the largest size, a negative entry
\* in it, has returned.
C4_Witness ==
    /\ ~IsNone(lf_ret_a)
    /\ "z" \in Keys(lf_model_out)
    /\ Len(lf_model_out["z"]) = MaxLen
    /\ -1 \in Range(lf_model_out["z"])
    /\ Val(lf_ret_a)[1]["reg"][1] > 0

\* C10: two LFLoss objects that differ only in l2_weight return equal
\* results for the same model_out and gt, whatever model and val are; and
\* 'img_loss' is 200 times the mean squared error of gt['rgb'] and
\* model_out['rgb'] whatever l2_weight is.
C10_L2WeightIsIgnored ==
    /\ (~IsNone(lf_ret_a) /\ ~IsNone(lf_ret_b) /\ lf_a.reg_weight = lf_b.reg_weight)
          => lf_ret_a = lf_ret_b
    /\ ~IsNone(lf_ret_a) =>
          IsFrac(Val(lf_ret_a)[1]["img_loss"],
                 200 * SumSq(lf_gt["rgb"], lf_model_out["rgb"]), Len(lf_gt["rgb"]))
    /\ ~IsNone(lf_ret_b) =>
          IsFrac(Val(lf_ret_b)[1]["img_loss"],
                 200 * SumSq(lf_gt["rgb"], lf_model_out["rgb"]), Len(lf_gt["rgb"]))

\* Both objects, of different l2_weight, have returned a non-zero image loss.
C10_Witness ==
    /\ ~IsNone(lf_ret_a)
    /\ ~IsNone(lf_ret_b)
    /\ lf_a.l2_weight # lf_b.l2_weight
    /\ Val(lf_ret_a)[1]["img_loss"][1] > 0

\* ----------------------------------------------------- PositionalEncoding
\* x is a matrix (a tuple of rows) of symbolic entries [row, col]; an entry
\* of the encoding is [fn, freq, row, col] for fn(freq * pi * x[row, col]).
RECURSIVE Pow2(_)
Pow2(i) == IF i = 0 THEN 1 ELSE 2 * Pow2(i - 1)

InputMatrix(rows, width) == [r \in 1..rows |-> [c \in 1..width |-> [row |-> r, col |-> c]]]

\* torch.sin(2**i * np.pi * x) and torch.cos(2**i * np.pi * x), entry-wise
Apply(fn, i, x) ==
    [r \in 1..Len(x) |->
        [c \in 1..Len(x[r]) |->
            [fn |-> fn, freq |-> Pow2(i), row |-> x[r][c].row, col |-> x[r][c].col]]]

RECURSIVE CatRow(_, _)
CatRow(blocks, r) ==
    IF blocks = <<>> THEN <<>> ELSE blocks[1][r] \o CatRow(Tail(blocks), r)

\* torch.cat(y, dim=-1): the rows of the blocks joined; an empty list raises.
Cat(y) ==
    IF y = <<>> THEN Raise("RuntimeError")
    ELSE Return([r \in 1..Len(y[1]) |-> CatRow(y, r)])

\* PositionalEncoding(in_features, n_dims)
NewPositionalEncoding(in_features, n_dims) ==
    [in_features |-> in_features, n_dims |-> n_dims]

\* A faulty variant of PEOutSize: the cos blocks not counted.
PEOutSizeSinOnly(self) == self.in_features * self.n_dims

\* PositionalEncoding.out_size()
PEOutSize(self) == self.in_features * self.n_dims * 2

PEInit ==
    /\ \E in_features \in 1..MaxDim, n_dims \in 0..MaxNDims :
          pe_self = NewPositionalEncoding(in_features, n_dims)
    /\ pe_x = <<>>
    /\ pe_y = <<>>
    /\ pe_i = 0
    /\ pe_pc = "idle"
    /\ pe_result = None

PEIdle ==
    /\ pe_self = NewPositionalEncoding(0, 0)
    /\ pe_x = <<>>
    /\ pe_y = <<>>
    /\ pe_i = 0
    /\ pe_pc = "idle"
    /\ pe_result = None

\* forward(x): entry, y = [] (line 195)
PEForwardCall ==
    /\ pe_pc = "idle"
    /\ \E rows \in 1..MaxDim, width \in 1..MaxDim : pe_x' = InputMatrix(rows, width)
    /\ pe_y' = <<>>
    /\ pe_i' = 0
    /\ pe_pc' = "loop"
    /\ UNCHANGED <<pe_self, pe_result, peOthers>>

\* One iteration of the loop at lines 196-198.
PEForwardStep ==
    /\ pe_pc = "loop"
    /\ pe_i < pe_self.n_dims
    /\ pe_y' = Append(Append(pe_y, Apply("sin", pe_i, pe_x)), Apply("cos", pe_i, pe_x))
    /\ pe_i' = pe_i + 1
    /\ UNCHANGED <<pe_self, pe_x, pe_pc, pe_result, peOthers>>

\* return torch.cat(y, dim=-1) (line 200)
PEForwardReturn ==
    /\ pe_pc = "loop"
    /\ pe_i >= pe_self.n_dims
    /\ LET out == Cat(pe_y)
       IN  /\ pe_result' = out.value
           /\ pe_pc' = IF Returned(out) THEN "done" ELSE "raised"
    /\ UNCHANGED <<pe_self, pe_x, pe_y, pe_i, peOthers>>

PENext == PEForwardCall \/ PEForwardStep \/ PEForwardReturn

\* --------------------------------------------- PositionalEncoding: claims
\* C5: for n_dims >= 1 and an input whose last axis has in_features entries,
\* every row of what forward returns has out_size() entries, made of
\* 2 * n_dims blocks of in_features entries each, in the order
\* sin(2^0 pi x), cos(2^0 pi x), ..., sin(2^(n_dims-1) pi x),
\* cos(2^(n_dims-1) pi x); out_size() is in_features * n_dims * 2.
C5_OutSizeIsForwardWidth ==
    (pe_pc = "done" /\ pe_self.n_dims >= 1 /\ Len(pe_x[1]) = pe_self.in_features) =>
        LET w == pe_self.in_features
            out == Val(pe_result)
        IN  /\ Len(out) = Len(pe_x)
            /\ \A r \in 1..Len(out) :
                  /\ Len(out[r]) = PEOutSize(pe_self)
                  /\ Len(out[r]) = w * pe_self.n_dims * 2
                  /\ \A j \in 0..(pe_self.n_dims - 1), c \in 1..w :
                        /\ out[r][2 * j * w + c] =
                              [fn |-> "sin", freq |-> Pow2(j), row |-> r, col |-> c]
                        /\ out[r][(2 * j + 1) * w + c] =
                              [fn |-> "cos", freq |-> Pow2(j), row |-> r, col |-> c]

\* forward has returned for the largest n_dims on an input of more than one
\* row and column whose width is in_features.
C5_Witness ==
    /\ pe_pc = "done"
    /\ pe_self.n_dims = MaxNDims
    /\ pe_self.in_features = MaxDim
    /\ Len(pe_x) = MaxDim
    /\ Len(pe_x[1]) = pe_self.in_features

\* ----------------------------------------------------------- FullyFusedFC
\* get_encoding_config(input_encoding, n_dims_to_encode)
get_encoding_config(input_encoding, n_dims_to_encode) ==
    LET config == IF n_dims_to_encode <= 0 THEN EmptyDict
                  ELSE ("n_dims_to_encode" :> n_dims_to_encode)
    IN  IF input_encoding = "identity" THEN config @@ ("otype" :> "Identity")
        ELSE IF input_encoding = "positional"
        THEN config @@ ("otype" :> "Frequency") @@ ("n_frequencies" :> 8)
        ELSE IF input_encoding = "grid"
        THEN config @@ ("otype" :> "HashGrid") @@ ("n_levels" :> 16)
                    @@ ("n_features_per_level" :> 2) @@ ("log2_hashmap_size" :> 19)
                    @@ ("base_resolution" :> 16) @@ ("per_level_scale" :> 2)
        ELSE config

\* A faulty variant of Chunk: the last chunk not shortened.
ChunkAlwaysThree(dims_remaining) == 3

\* Line 213: n_dims_to_encode = min(dims_remaining, 3)
Chunk(dims_remaining) == Min(dims_remaining, 3)

Composite(nested) == ("otype" :> "Composite") @@ ("nested" :> nested)

\* Lines 222-228
ModelConfig(hidden_size, num_hidden_layers) ==
    ("otype" :> "FullyFusedMLP") @@ ("activation" :> "ReLU")
    @@ ("output_activation" :> "None") @@ ("n_neurons" :> hidden_size)
    @@ ("n_hidden_layers" :> num_hidden_layers)

Encodings == {"identity", "positional", "grid"}

FFInit ==
    /\ \E in_features \in 1..MaxInFeatures, input_encoding \in Encodings,
          repeat_nested_encoding \in BOOLEAN :
          ff_args = [in_features |-> in_features, out_features |-> 3,
                     num_hidden_layers |-> 2, hidden_size |-> 64,
                     input_encoding |-> input_encoding,
                     repeat_nested_encoding |-> repeat_nested_encoding]
    /\ ff_dims_remaining = 0
    /\ ff_encoding_config = EmptyDict
    /\ ff_iterations = 0
    /\ ff_pc = "start"
    /\ ff_net = None

FFIdle ==
    /\ ff_args = EmptyDict
    /\ ff_dims_remaining = 0
    /\ ff_encoding_config = EmptyDict
    /\ ff_iterations = 0
    /\ ff_pc = "idle"
    /\ ff_net = None

IsCompositeCase(args) == args.input_encoding = "grid" /\ args.in_features > 3

\* Lines 205-211: a composite encoding whose nested list is filled chunk by
\* chunk.
FFStartRepeat ==
    /\ ff_pc = "start"
    /\ IsCompositeCase(ff_args)
    /\ ff_args.repeat_nested_encoding
    /\ ff_encoding_config' = Composite(<<>>)
    /\ ff_dims_remaining' = ff_args.in_features
    /\ ff_pc' = "repeat"
    /\ UNCHANGED <<ff_args, ff_iterations, ff_net, ffOthers>>

\* One iteration of the loop at lines 212-215.
FFRepeatStep ==
    /\ ff_pc = "repeat"
    /\ ff_dims_remaining > 0
    /\ LET n_dims_to_encode == Chunk(ff_dims_remaining)
       IN  /\ ff_encoding_config' =
                 Composite(Append(ff_encoding_config["nested"],
                                  get_encoding_config(ff_args.input_encoding,
                                                      n_dims_to_encode)))
           /\ ff_dims_remaining' = ff_dims_remaining - n_dims_to_encode
    /\ ff_iterations' = ff_iterations + 1
    /\ UNCHANGED <<ff_args, ff_pc, ff_net, ffOthers>>

\* The loop at line 212 ends.
FFRepeatEnd ==
    /\ ff_pc = "repeat"
    /\ ff_dims_remaining <= 0
    /\ ff_pc' = "config"
    /\ UNCHANGED <<ff_args, ff_dims_remaining, ff_encoding_config, ff_iterations,
                   ff_net, ffOthers>>

\* Lines 205-209, 216-218: a composite encoding of two nested entries.
FFStartNoRepeat ==
    /\ ff_pc = "start"
    /\ IsCompositeCase(ff_args)
    /\ ~ff_args.repeat_nested_encoding
    /\ ff_encoding_config' =
          Composite(<<get_encoding_config(ff_args.input_encoding, 2),
                      get_encoding_config("identity", ff_args.in_features - 3)>>)
    /\ ff_pc' = "config"
    /\ UNCHANGED <<ff_args, ff_dims_remaining, ff_iterations, ff_net, ffOthers>>

\* Lines 219-220: a plain encoding.
FFStartPlain ==
    /\ ff_pc = "start"
    /\ ~IsCompositeCase(ff_args)
    /\ ff_encoding_config' = get_encoding_config(ff_args.input_encoding, -1)
    /\ ff_pc' = "config"
    /\ UNCHANGED <<ff_args, ff_dims_remaining, ff_iterations, ff_net, ffOthers>>

\* Lines 222-232: the network is built from the two configs.
FFBuildNet ==
    /\ ff_pc = "config"
    /\ ff_net' = Some([n_input_dims |-> ff_args.in_features,
                       n_output_dims |-> ff_args.out_features,
                       encoding_config |-> ff_encoding_config,
                       network_config |-> ModelConfig(ff_args.hidden_size,
                                                      ff_args.num_hidden_layers)])
    /\ ff_pc' = "done"
    /\ UNCHANGED <<ff_args, ff_dims_remaining, ff_encoding_config, ff_iterations,
                   ffOthers>>

FFNext == \/ FFStartRepeat \/ FFRepeatStep \/ FFRepeatEnd
          \/ FFStartNoRepeat \/ FFStartPlain \/ FFBuildNet

\* --------------------------------------------------- FullyFusedFC: claims
NestedOf(net) == Val(net).encoding_config["nested"]
NDims(nested) == [k \in 1..Len(nested) |-> nested[k]["n_dims_to_encode"]]

\* C6: with input_encoding 'grid', in_features > 3 and
\* repeat_nested_encoding, dims_remaining never goes below 0, the loop ends
\* after exactly ceil(in_features / 3) iterations with dims_remaining = 0,
\* and the nested configs are HashGrids whose n_dims_to_encode are between
\* 1 and 3, all 3 except possibly the last, and sum to in_features.
C6_ChunkingTerminates ==
    (ff_pc # "idle" /\ IsCompositeCase(ff_args) /\ ff_args.repeat_nested_encoding) =>
        /\ ff_dims_remaining >= 0
        /\ ff_iterations <= (ff_args.in_features + 2) \div 3
        /\ ff_pc \in {"config", "done"} =>
              /\ ff_dims_remaining = 0
              /\ ff_iterations = (ff_args.in_features + 2) \div 3
        /\ ff_pc = "done" =>
              LET nested == NestedOf(ff_net)
              IN  /\ Len(nested) = ff_iterations
                  /\ \A k \in 1..Len(nested) :
                        /\ nested[k]["otype"] = "HashGrid"
                        /\ "n_dims_to_encode" \in Keys(nested[k])
                        /\ nested[k]["n_dims_to_encode"] \in 1..3
                        /\ k < Len(nested) => nested[k]["n_dims_to_encode"] = 3
                  /\ SumSeq(NDims(nested)) = ff_args.in_features

\* The constructor has finished for the largest in_features, which leaves a
\* last chunk smaller than 3.
C6_Witness ==
    /\ ff_pc = "done"
    /\ IsCompositeCase(ff_args)
    /\ ff_args.repeat_nested_encoding
    /\ ff_args.in_features = MaxInFeatures
    /\ ff_iterations >= 2

\* C7: with input_encoding 'grid', in_features > 3 and
\* repeat_nested_encoding False, the composite has exactly two nested entries,
\* a HashGrid then an Identity, both with an n_dims_to_encode key, whose
\* n_dims_to_encode sum to in_features.
C7_TwoNestedCoverAllDims ==
    (ff_pc = "done" /\ IsCompositeCase(ff_args) /\ ~ff_args.repeat_nested_encoding) =>
        LET nested == NestedOf(ff_net)
        IN  /\ Len(nested) = 2
            /\ nested[1]["otype"] = "HashGrid"
            /\ nested[2]["otype"] = "Identity"
            /\ \A k \in 1..2 : "n_dims_to_encode" \in Keys(nested[k])
            /\ SumSeq(NDims(nested)) = ff_args.in_features

\* ---------------------------------------------------------------- FCBlock
\* FCLayer(in_features, out_features, nonlinearity, norm): its net is a
\* BatchLinear, then the norm and the nonlinearity the arguments select.
Linear(in_features, out_features) ==
    [module |-> "BatchLinear", in_features |-> in_features, out_features |-> out_features]
Other(module, width) ==
    [module |-> module, in_features |-> width, out_features |-> width]

FCLayer(in_features, out_features, nonlinearity, norm) ==
    [kind |-> "FCLayer",
     net |-> <<Linear(in_features, out_features)>>
             \o (IF norm \in {"layernorm", "layernorm_na"}
                 THEN <<Other("LayerNorm", out_features)>> ELSE <<>>)
             \o (IF nonlinearity = "relu" THEN <<Other("ReLU", out_features)>>
                 ELSE IF nonlinearity = "leaky_relu"
                 THEN <<Other("LeakyReLU", out_features)>>
                 ELSE <<>>)]

\* A bare BatchLinear(in_features, out_features) as a member of FCBlock.net.
BareLinear(in_features, out_features) ==
    [kind |-> "BatchLinear", net |-> <<Linear(in_features, out_features)>>]

\* Line 92
FCFirst(a) == FCLayer(a.in_features, a.hidden_ch, a.nonlinearity, a.norm)
\* Line 95
FCHidden(a) == FCLayer(a.hidden_ch, a.hidden_ch, a.nonlinearity, a.norm)
\* A faulty variant of FCLast: the last layer fed in_features wide.
FCLastFromInput(a) ==
    IF a.outermost_linear THEN BareLinear(a.in_features, a.out_features)
    ELSE FCLayer(a.in_features, a.out_features, a.nonlinearity, a.norm)

\* Lines 97-100
FCLast(a) ==
    IF a.outermost_linear THEN BareLinear(a.hidden_ch, a.out_features)
    ELSE FCLayer(a.hidden_ch, a.out_features, a.nonlinearity, a.norm)

Norms == {"None", "layernorm", "layernorm_na"}
Nonlinearities == {"relu", "leaky_relu", "tanh"}

\* The params arguments of FCBlock.forward: None, or a mapping over some
\* dotted names, under 'net' or not.
FCNames == {<<"net", 0, "net", 0, "weight">>, <<"net", 0, "net", 0, "bias">>,
            <<"net", 1, "weight">>, <<"head", 0, "weight">>}
FCParamsArgs == {None} \cup {Some([k \in K |-> Id("given", k)]) : K \in SUBSET FCNames}

FCInit ==
    /\ \E hidden_ch \in 1..MaxDim, in_features \in 1..MaxDim, out_features \in 1..MaxDim,
          num_hidden_layers \in 0..MaxHidden, outermost_linear \in BOOLEAN,
          norm \in Norms, nonlinearity \in Nonlinearities :
          fc_args = [hidden_ch |-> hidden_ch, num_hidden_layers |-> num_hidden_layers,
                     in_features |-> in_features, out_features |-> out_features,
                     outermost_linear |-> outermost_linear, norm |-> norm,
                     nonlinearity |-> nonlinearity]
    /\ fc_net = <<>>
    /\ fc_i = 0
    /\ fc_pc = "start"
    /\ fc_params = None
    /\ fc_net_call = None

FCIdle ==
    /\ fc_args = EmptyDict
    /\ fc_net = <<>>
    /\ fc_i = 0
    /\ fc_pc = "idle"
    /\ fc_params = None
    /\ fc_net_call = None

\* Lines 91-92: the first layer.
FCAppendFirst ==
    /\ fc_pc = "start"
    /\ fc_net' = <<FCFirst(fc_args)>>
    /\ fc_i' = 0
    /\ fc_pc' = "hidden"
    /\ UNCHANGED <<fc_args, fc_params, fc_net_call, fcOthers>>

\* One iteration of the loop at lines 94-95.
FCAppendHidden ==
    /\ fc_pc = "hidden"
    /\ fc_i < fc_args.num_hidden_layers
    /\ fc_net' = Append(fc_net, FCHidden(fc_args))
    /\ fc_i' = fc_i + 1
    /\ UNCHANGED <<fc_args, fc_pc, fc_params, fc_net_call, fcOthers>>

\* Lines 97-103: the last layer; the list becomes the MetaSequential.
FCAppendLast ==
    /\ fc_pc = "hidden"
    /\ fc_i >= fc_args.num_hidden_layers
    /\ fc_net' = Append(fc_net, FCLast(fc_args))
    /\ fc_pc' = "built"
    /\ UNCHANGED <<fc_args, fc_i, fc_params, fc_net_call, fcOthers>>

\* FCBlock.forward(input, params) (lines 105-106)
FCForward ==
    /\ fc_pc = "built"
    /\ \E params \in FCParamsArgs :
          /\ fc_params' = params
          /\ fc_net_call' = Some([params |-> GetSubdict(params, <<"net">>)])
    /\ fc_pc' = "called"
    /\ UNCHANGED <<fc_args, fc_net, fc_i, fcOthers>>

FCNext == FCAppendFirst \/ FCAppendHidden \/ FCAppendLast \/ FCForward

\* -------------------------------------------------------- FCBlock: claims
InWidth(layer) == layer.net[1].in_features
OutWidth(layer) == layer.net[Len(layer.net)].out_features

\* The entries of params handed on, under their names in params, and the
\* entries of params whose name starts with 'net.'.
ReceivedByNet(sub) ==
    IF IsNone(sub) THEN {}
    ELSE {<<(<<"net">> \o n), Val(sub)[n]>> : n \in Keys(Val(sub))}
UnderNet(params) ==
    IF IsNone(params) THEN {}
    ELSE {<<k, Val(params)[k]>> : k \in {n \in Keys(Val(params)) : n[1] = "net"}}

\* C9: a built FCBlock has num_hidden_layers + 2 layers, the first from
\* in_features to hidden_ch, the middle ones from hidden_ch to hidden_ch, the
\* last from hidden_ch to out_features, each layer's output width the next
\* one's input width; the last is a bare BatchLinear exactly when
\* outermost_linear, an FCLayer otherwise; forward hands self.net the
\* entries of params under 'net'.
C9_WellFormedChain ==
    /\ fc_pc \in {"built", "called"} =>
          LET n == fc_args.num_hidden_layers + 2
          IN  /\ Len(fc_net) = n
              /\ InWidth(fc_net[1]) = fc_args.in_features
              /\ OutWidth(fc_net[1]) = fc_args.hidden_ch
              /\ fc_net[1].kind = "FCLayer"
              /\ \A k \in 2..(n - 1) :
                    /\ fc_net[k].kind = "FCLayer"
                    /\ InWidth(fc_net[k]) = fc_args.hidden_ch
                    /\ OutWidth(fc_net[k]) = fc_args.hidden_ch
              /\ InWidth(fc_net[n]) = fc_args.hidden_ch
              /\ OutWidth(fc_net[n]) = fc_args.out_features
              /\ \A k \in 1..(n - 1) : OutWidth(fc_net[k]) = InWidth(fc_net[k + 1])
              /\ fc_args.outermost_linear =>
                    /\ fc_net[n].kind = "BatchLinear"
                    /\ Len(fc_net[n].net) = 1
              /\ ~fc_args.outermost_linear => fc_net[n].kind = "FCLayer"
    /\ fc_pc = "called" =>
          ReceivedByNet(Val(fc_net_call).params) = UnderNet(fc_params)

\* forward has run on the deepest block, built with outermost_linear and
\* distinct widths, with params that hold names under 'net' and others.
C9_Witness ==
    /\ fc_pc = "called"
    /\ fc_args.num_hidden_layers = MaxHidden
    /\ fc_args.outermost_linear
    /\ fc_args.in_features # fc_args.hidden_ch
    /\ ~IsNone(fc_params)
    /\ Keys(Val(fc_params)) = FCNames

\* --------------------------------------------------------- specifications
InitBatchLinear == BLInit /\ SNIdle /\ LFIdle /\ PEIdle /\ FFIdle /\ FCIdle
SpecBatchLinear == InitBatchLinear /\ [][BLNext]_vars

InitSiren == SNInit /\ BLIdle /\ LFIdle /\ PEIdle /\ FFIdle /\ FCIdle
SpecSiren == InitSiren /\ [][SNNext]_vars

InitLoss == LFInit /\ BLIdle /\ SNIdle /\ PEIdle /\ FFIdle /\ FCIdle
SpecLoss == InitLoss /\ [][LFNext]_vars

InitPosEnc == PEInit /\ BLIdle /\ SNIdle /\ LFIdle /\ FFIdle /\ FCIdle
SpecPosEnc == InitPosEnc /\ [][PENext]_vars

InitFused == FFInit /\ BLIdle /\ SNIdle /\ LFIdle /\ PEIdle /\ FCIdle
SpecFused == InitFused /\ [][FFNext]_vars

InitFCBlock == FCInit /\ BLIdle /\ SNIdle /\ LFIdle /\ PEIdle /\ FFIdle
SpecFCBlock == InitFCBlock /\ [][FCNext]_vars

=============================================================================
